---- MODULE Spec2Model ----
(***************************************************************************)
(* Model of sdks/python/apache_beam/coders/coders.py: the coder classes,   *)
(* their equality, hashing, determinism and key/value views, the lazily    *)
(* cached implementation handle, and the pickled coder descriptions.       *)
(*                                                                         *)
(* Coder objects live in a heap: heap[o] is the __dict__ of object o       *)
(* without '_impl' (its class, the coder objects it refers to, and its     *)
(* scalar attribute); impl[o] is the '_impl' attribute.                    *)
(***************************************************************************)
EXTENDS Integers, Sequences, FiniteSets, TLC

VARIABLES heap, ncalls, impl, created, first, frames, rets, last, codec

vars == <<heap, ncalls, impl, created, first, frames, rets, last, codec>>

(* ------------------------------ bounds --------------------------------- *)
\* constructor calls made by the program after the module is imported
MaxCalls == 2
\* constructor calls made by the program of SpecImpl
MaxImplCalls == 1
\* constructor calls made before the threads of SpecRace start
MaxRaceCalls == 1

\* longest component list handed to TupleCoder
Arities == {0, 1, 2, 3}
\* values a SingletonCoder may hold, message types of a ProtoCoder, step labels
Values == {"a", "b"}
MessageTypes == {"MsgA", "MsgB"}
StepLabels == {"s1", "s2"}

(* ------------------------------ classes -------------------------------- *)
\* classes whose constructor takes no argument
StatelessKinds ==
  {"StrUtf8Coder", "ToStringCoder", "BytesCoder", "VarIntCoder", "FloatCoder",
   "TimestampCoder", "PickleCoder", "DillCoder", "Base64PickleCoder",
   "GlobalWindowCoder", "IntervalWindowCoder"}

Kinds ==
  StatelessKinds \cup
  {"SingletonCoder", "ProtoCoder", "DeterministicFastPrimitivesCoder",
   "FastPrimitivesCoder", "TupleCoder", "TupleSequenceCoder", "IterableCoder",
   "WindowedValueCoder", "LengthPrefixCoder"}

\* an object: its class, the coders its attributes refer to (in attribute
\* order) and its scalar attribute ("" when the class has none)
Obj(k, r, v) == [kind |-> k, refs |-> r, val |-> v]

Objs(h) == 1..Len(h)

\* the PickleCoder() evaluated once as the default argument of
\* FastPrimitivesCoder.__init__ when the module is imported
DefaultFallback == 1

\* A handle (a CoderImpl object) is known by the coder whose _create_impl made
\* it and by the number of that call; args are the handles it was built from.
Handle(o, n, args) == [owner |-> o, serial |-> n, args |-> args]
HandleId(hd) == [owner |-> hd.owner, serial |-> hd.serial]
NoHandle == Handle(0, 0, <<>>)

(* --------------------------- Coder.__dict__ ---------------------------- *)
\* a slip that would never find the cached handle
hasattr_impl_Never(im, o) == FALSE

\* hasattr(self, '_impl')
hasattr_impl(im, o) == im[o] # NoHandle

\* self.__dict__ : the attributes of o, the cached handle among them
dict(h, im, o) == [refs |-> h[o].refs, val |-> h[o].val, impl |-> im[o]]

\* a slip that would leave the handle in the dictionary
dict_without_impl_Keep(h, im, o) == dict(h, im, o)

\* Coder._dict_without_impl
dict_without_impl(h, im, o) ==
  IF hasattr_impl(im, o)
    THEN [dict(h, im, o) EXCEPT !.impl = NoHandle]
    ELSE dict(h, im, o)

\* Coder.__getstate__
getstate(h, im, o) == dict_without_impl(h, im, o)

(* --------------------------- is_deterministic -------------------------- *)
RECURSIVE is_deterministic(_, _)

\* FastPrimitivesCoder.is_deterministic
FastPrimitivesCoder_is_deterministic(h, o) == is_deterministic(h, h[o].refs[1])

\* TupleCoder.is_deterministic
TupleCoder_is_deterministic(h, o) ==
  \A i \in 1..Len(h[o].refs) : is_deterministic(h, h[o].refs[i])

\* TupleSequenceCoder.is_deterministic
TupleSequenceCoder_is_deterministic(h, o) == is_deterministic(h, h[o].refs[1])

\* IterableCoder.is_deterministic
IterableCoder_is_deterministic(h, o) == is_deterministic(h, h[o].refs[1])

\* a slip that would ask the wrapped value coder alone
WindowedValueCoder_is_deterministic_ValueOnly(h, o) == is_deterministic(h, h[o].refs[1])

\* WindowedValueCoder.is_deterministic
WindowedValueCoder_is_deterministic(h, o) ==
  \A i \in 1..3 : is_deterministic(h, h[o].refs[i])

\* LengthPrefixCoder.is_deterministic
LengthPrefixCoder_is_deterministic(h, o) == is_deterministic(h, h[o].refs[1])

\* o.is_deterministic(), resolved on the class of o
is_deterministic(h, o) ==
  CASE h[o].kind \in {"StrUtf8Coder", "ToStringCoder", "BytesCoder", "VarIntCoder",
                      "FloatCoder", "TimestampCoder", "SingletonCoder",
                      "GlobalWindowCoder", "IntervalWindowCoder",
                      "DeterministicFastPrimitivesCoder"} -> TRUE
    [] h[o].kind \in {"PickleCoder", "DillCoder", "Base64PickleCoder",
                      "ProtoCoder"} -> FALSE
    [] h[o].kind = "FastPrimitivesCoder" -> FastPrimitivesCoder_is_deterministic(h, o)
    [] h[o].kind = "TupleCoder" -> TupleCoder_is_deterministic(h, o)
    [] h[o].kind = "TupleSequenceCoder" -> TupleSequenceCoder_is_deterministic(h, o)
    [] h[o].kind = "IterableCoder" -> IterableCoder_is_deterministic(h, o)
    [] h[o].kind = "WindowedValueCoder" -> WindowedValueCoder_is_deterministic(h, o)
    [] h[o].kind = "LengthPrefixCoder" -> LengthPrefixCoder_is_deterministic(h, o)

(* ------------------------------ __eq__ --------------------------------- *)
RECURSIVE eq(_, _, _, _)

\* d1 == d2 for two attribute dictionaries of objects of one class: the same
\* keys, and values that compare equal (coders by their __eq__)
DictEq(h, im, d1, d2) ==
  /\ Len(d1.refs) = Len(d2.refs)
  /\ \A i \in 1..Len(d1.refs) : eq(h, im, d1.refs[i], d2.refs[i])
  /\ d1.val = d2.val
  /\ d1.impl = d2.impl

\* a slip that would compare the dictionaries with the handles in them
Coder_eq_WithImpl(h, im, a, b) ==
  /\ h[a].kind = h[b].kind
  /\ DictEq(h, im, dict(h, im, a), dict(h, im, b))

\* Coder.__eq__
Coder_eq(h, im, a, b) ==
  /\ h[a].kind = h[b].kind
  /\ DictEq(h, im, dict_without_impl(h, im, a), dict_without_impl(h, im, b))

\* the __eq__ of BytesCoder, VarIntCoder, FloatCoder, TimestampCoder,
\* _PickleCoderBase, FastPrimitivesCoder and IntervalWindowCoder
Type_eq(h, a, b) == h[a].kind = h[b].kind

\* SingletonCoder.__eq__
SingletonCoder_eq(h, a, b) == h[a].kind = h[b].kind /\ h[a].val = h[b].val

\* ProtoCoder.__eq__
ProtoCoder_eq(h, a, b) == h[a].kind = h[b].kind /\ h[a].val = h[b].val

\* self._coders == self._coders : a tuple compared with itself
TupleSelfEq(h, im, a) ==
  \A i \in 1..Len(h[a].refs) : eq(h, im, h[a].refs[i], h[a].refs[i])

\* TupleCoder.__eq__
TupleCoder_eq(h, im, a, b) == h[a].kind = h[b].kind /\ TupleSelfEq(h, im, a)

\* TupleSequenceCoder.__eq__
TupleSequenceCoder_eq(h, im, a, b) ==
  h[a].kind = h[b].kind /\ eq(h, im, h[a].refs[1], h[a].refs[1])

\* IterableCoder.__eq__
IterableCoder_eq(h, im, a, b) ==
  h[a].kind = h[b].kind /\ eq(h, im, h[a].refs[1], h[a].refs[1])

\* WindowedValueCoder.__eq__
WindowedValueCoder_eq(h, im, a, b) ==
  /\ h[a].kind = h[b].kind
  /\ eq(h, im, h[a].refs[1], h[b].refs[1])
  /\ eq(h, im, h[a].refs[2], h[b].refs[2])
  /\ eq(h, im, h[a].refs[3], h[b].refs[3])

\* LengthPrefixCoder.__eq__
LengthPrefixCoder_eq(h, im, a, b) ==
  h[a].kind = h[b].kind /\ eq(h, im, h[a].refs[1], h[b].refs[1])

\* a == b, resolved on the class of a
eq(h, im, a, b) ==
  CASE h[a].kind \in {"StrUtf8Coder", "ToStringCoder", "Base64PickleCoder",
                      "DeterministicFastPrimitivesCoder"} -> Coder_eq(h, im, a, b)
    [] h[a].kind \in {"BytesCoder", "VarIntCoder", "FloatCoder", "TimestampCoder",
                      "PickleCoder", "DillCoder", "FastPrimitivesCoder",
                      "IntervalWindowCoder"} -> Type_eq(h, a, b)
    [] h[a].kind \in {"SingletonCoder", "GlobalWindowCoder"} -> SingletonCoder_eq(h, a, b)
    [] h[a].kind = "ProtoCoder" -> ProtoCoder_eq(h, a, b)
    [] h[a].kind = "TupleCoder" -> TupleCoder_eq(h, im, a, b)
    [] h[a].kind = "TupleSequenceCoder" -> TupleSequenceCoder_eq(h, im, a, b)
    [] h[a].kind = "IterableCoder" -> IterableCoder_eq(h, im, a, b)
    [] h[a].kind = "WindowedValueCoder" -> WindowedValueCoder_eq(h, im, a, b)
    [] h[a].kind = "LengthPrefixCoder" -> LengthPrefixCoder_eq(h, im, a, b)

(* ------------------------------ __hash__ ------------------------------- *)
\* Hash values are kept symbolic: the identity hash of an object, the hash of
\* a class, the hash of a stored value, and the hash of a tuple of hashes.
HashOf(t, n, s, sub) == [tag |-> t, n |-> n, s |-> s, sub |-> sub]

RECURSIVE hash(_, _)

\* object.__hash__, inherited by the classes that define no __hash__
object_hash(o) == HashOf("id", o, "", <<>>)

\* hash(type(self))
Type_hash(h, o) == HashOf("type", 0, h[o].kind, <<>>)

\* SingletonCoder.__hash__
SingletonCoder_hash(h, o) == HashOf("value", 0, h[o].val, <<>>)

\* ProtoCoder.__hash__
ProtoCoder_hash(h, o) == HashOf("value", 0, h[o].val, <<>>)

\* TupleCoder.__hash__
TupleCoder_hash(h, o) ==
  HashOf("tuple", 0, "", [i \in 1..Len(h[o].refs) |-> hash(h, h[o].refs[i])])

\* the __hash__ of TupleSequenceCoder, IterableCoder and LengthPrefixCoder:
\* hash((type(self), component))
TypeAndComponent_hash(h, o) ==
  HashOf("tuple", 0, "", <<Type_hash(h, o), hash(h, h[o].refs[1])>>)

\* WindowedValueCoder.__hash__
WindowedValueCoder_hash(h, o) ==
  HashOf("tuple", 0, "", [i \in 1..3 |-> hash(h, h[o].refs[i])])

\* hash(o), resolved on the class of o
hash(h, o) ==
  CASE h[o].kind \in {"StrUtf8Coder", "ToStringCoder", "Base64PickleCoder",
                      "DeterministicFastPrimitivesCoder"} -> object_hash(o)
    [] h[o].kind \in {"BytesCoder", "VarIntCoder", "FloatCoder", "TimestampCoder",
                      "PickleCoder", "DillCoder", "FastPrimitivesCoder",
                      "IntervalWindowCoder"} -> Type_hash(h, o)
    [] h[o].kind \in {"SingletonCoder", "GlobalWindowCoder"} -> SingletonCoder_hash(h, o)
    [] h[o].kind = "ProtoCoder" -> ProtoCoder_hash(h, o)
    [] h[o].kind = "TupleCoder" -> TupleCoder_hash(h, o)
    [] h[o].kind \in {"TupleSequenceCoder", "IterableCoder", "LengthPrefixCoder"} ->
         TypeAndComponent_hash(h, o)
    [] h[o].kind = "WindowedValueCoder" -> WindowedValueCoder_hash(h, o)

(* ------------------- is_kv_coder, key_coder, value_coder ---------------- *)
\* the outcome of a call: a returned object, or a raised error
Return(o) == [ok |-> TRUE, val |-> o, err |-> ""]
Raise(e) == [ok |-> FALSE, val |-> 0, err |-> e]

NotAKvCoder == "ValueError: Not a KV coder"
NotTwoComponents == "ValueError: TupleCoder does not have exactly 2 components."

RECURSIVE is_kv_coder(_, _)
RECURSIVE key_coder(_, _)
RECURSIVE value_coder(_, _)

\* a slip that would take every tuple of two or more components for a pair
TupleCoder_is_kv_coder_AtLeastTwo(h, o) == Len(h[o].refs) >= 2

\* TupleCoder.is_kv_coder
TupleCoder_is_kv_coder(h, o) == Len(h[o].refs) = 2

\* WindowedValueCoder.is_kv_coder
WindowedValueCoder_is_kv_coder(h, o) == is_kv_coder(h, h[o].refs[1])

\* o.is_kv_coder(), resolved on the class of o
is_kv_coder(h, o) ==
  CASE h[o].kind \in {"PickleCoder", "DillCoder", "DeterministicFastPrimitivesCoder",
                      "FastPrimitivesCoder", "Base64PickleCoder"} -> TRUE
    [] h[o].kind = "TupleCoder" -> TupleCoder_is_kv_coder(h, o)
    [] h[o].kind = "WindowedValueCoder" -> WindowedValueCoder_is_kv_coder(h, o)
    [] OTHER -> FALSE

\* Coder.key_coder
Coder_key_coder(h, o) ==
  IF is_kv_coder(h, o) THEN Raise("NotImplementedError") ELSE Raise(NotAKvCoder)

\* Coder.value_coder
Coder_value_coder(h, o) ==
  IF is_kv_coder(h, o) THEN Raise("NotImplementedError") ELSE Raise(NotAKvCoder)

\* TupleCoder.key_coder
TupleCoder_key_coder(h, o) ==
  IF Len(h[o].refs) # 2 THEN Raise(NotTwoComponents) ELSE Return(h[o].refs[1])

\* TupleCoder.value_coder
TupleCoder_value_coder(h, o) ==
  IF Len(h[o].refs) # 2 THEN Raise(NotTwoComponents) ELSE Return(h[o].refs[2])

\* WindowedValueCoder.key_coder
WindowedValueCoder_key_coder(h, o) == key_coder(h, h[o].refs[1])

\* WindowedValueCoder.value_coder
WindowedValueCoder_value_coder(h, o) == value_coder(h, h[o].refs[1])

\* IterableCoder.value_coder
IterableCoder_value_coder(h, o) == Return(h[o].refs[1])

\* LengthPrefixCoder.value_coder
LengthPrefixCoder_value_coder(h, o) == Return(h[o].refs[1])

\* o.key_coder(), resolved on the class of o
key_coder(h, o) ==
  CASE h[o].kind \in {"PickleCoder", "DillCoder", "DeterministicFastPrimitivesCoder",
                      "FastPrimitivesCoder", "Base64PickleCoder"} -> Return(o)
    [] h[o].kind = "TupleCoder" -> TupleCoder_key_coder(h, o)
    [] h[o].kind = "WindowedValueCoder" -> WindowedValueCoder_key_coder(h, o)
    [] OTHER -> Coder_key_coder(h, o)

\* o.value_coder(), resolved on the class of o
value_coder(h, o) ==
  CASE h[o].kind \in {"PickleCoder", "DillCoder", "DeterministicFastPrimitivesCoder",
                      "FastPrimitivesCoder", "Base64PickleCoder"} -> Return(o)
    [] h[o].kind = "TupleCoder" -> TupleCoder_value_coder(h, o)
    [] h[o].kind = "WindowedValueCoder" -> WindowedValueCoder_value_coder(h, o)
    [] h[o].kind = "IterableCoder" -> IterableCoder_value_coder(h, o)
    [] h[o].kind = "LengthPrefixCoder" -> LengthPrefixCoder_value_coder(h, o)
    [] OTHER -> Coder_value_coder(h, o)

(* ------------------------ pickled descriptions ------------------------- *)
\* A string is kept as a sequence of fragments: a run of name characters, a
\* '$', or the text pickler.dumps produced.
NameFrag(n) == [t |-> "name", name |-> n, blob |-> <<>>]
DollarFrag == [t |-> "$", name |-> "", blob |-> <<>>]
BlobFrag(b) == [t |-> "blob", name |-> "", blob |-> b]

RECURSIVE Reach(_, _)
\* the objects a pickle of o visits: o and every coder its attributes reach
Reach(h, o) == {o} \cup UNION {Reach(h, h[o].refs[i]) : i \in 1..Len(h[o].refs)}

\* a set of object ids in increasing order
Sorted(S) ==
  [i \in 1..Cardinality(S) |-> CHOOSE x \in S : Cardinality({y \in S : y < x}) = i - 1]

Position(seq, x) == CHOOSE i \in 1..Len(seq) : seq[i] = x

\* pickler.dumps(coder): every visited object is written once, as its class
\* and the state its __getstate__ returns; a reference to a coder is written
\* as the place of that coder in the pickle; the pickled coder comes last
pickler_dumps(h, im, o) ==
  LET ids == Sorted(Reach(h, o)) IN
  [i \in 1..Len(ids) |->
     LET st == getstate(h, im, ids[i]) IN
     [cls |-> h[ids[i]].kind,
      refs |-> [j \in 1..Len(st.refs) |-> Position(ids, st.refs[j])],
      val |-> st.val,
      impl |-> st.impl]]

\* text that pickler.loads can read back: at least one object, every class
\* known, every reference to an object written earlier
Loadable(text) ==
  /\ Len(text) = 1
  /\ text[1].t = "blob"
  /\ Len(text[1].blob) > 0
  /\ \A i \in 1..Len(text[1].blob) :
       /\ text[1].blob[i].cls \in Kinds
       /\ \A j \in 1..Len(text[1].blob[i].refs) : text[1].blob[i].refs[j] \in 1..(i - 1)

\* the result of a load: new objects on the heap, or an error
Loaded(h, im, cr, o) == [ok |-> TRUE, err |-> "", heap |-> h, impl |-> im, created |-> cr, obj |-> o]
LoadError(e, h, im, cr) == [ok |-> FALSE, err |-> e, heap |-> h, impl |-> im, created |-> cr, obj |-> 0]

\* pickler.loads(text): every pickled object becomes a new object whose
\* __dict__ is the pickled state
pickler_loads(h, im, cr, text) ==
  IF ~Loadable(text) THEN LoadError("UnpicklingError", h, im, cr)
  ELSE LET b == text[1].blob
           base == Len(h) IN
       Loaded(h \o [i \in 1..Len(b) |->
                      Obj(b[i].cls, [j \in 1..Len(b[i].refs) |-> base + b[i].refs[j]], b[i].val)],
              im \o [i \in 1..Len(b) |-> b[i].impl],
              cr \o [i \in 1..Len(b) |-> 0],
              base + Len(b))

\* serialize_coder
serialize_coder(h, im, o) ==
  <<NameFrag(h[o].kind), DollarFrag, BlobFrag(pickler_dumps(h, im, o))>>

\* serialized.split('$', 1) : the text after the first '$', if there is one
HasDollar(s) == \E i \in 1..Len(s) : s[i].t = "$"
AfterFirstDollar(s) ==
  LET i == CHOOSE k \in 1..Len(s) : s[k].t = "$" /\ \A m \in 1..(k - 1) : s[m].t # "$"
  IN SubSeq(s, i + 1, Len(s))

\* a slip that would hand the whole description to the pickler
deserialize_coder_WholeText(h, im, cr, s) == pickler_loads(h, im, cr, s)

\* deserialize_coder
deserialize_coder(h, im, cr, s) ==
  IF ~HasDollar(s) THEN LoadError("IndexError", h, im, cr)
  ELSE pickler_loads(h, im, cr, AfterFirstDollar(s))

(* --------------------------- as_cloud_object --------------------------- *)
CloudObject(type, pair, stream, wrapper, hasComps, comps) ==
  [type |-> type, is_pair_like |-> pair, is_stream_like |-> stream,
   is_wrapper |-> wrapper, has_component_encodings |-> hasComps,
   component_encodings |-> comps]

\* o._get_component_coders(), resolved on the class of o
get_component_coders(h, o) ==
  CASE h[o].kind \in {"TupleCoder", "TupleSequenceCoder", "IterableCoder",
                      "LengthPrefixCoder"} -> h[o].refs
    [] h[o].kind = "WindowedValueCoder" -> <<h[o].refs[1], h[o].refs[3]>>
    [] OTHER -> <<>>

RECURSIVE as_cloud_object(_, _, _)

\* Coder.as_cloud_object
Coder_as_cloud_object(h, im, o) ==
  LET cs == get_component_coders(h, o) IN
  CloudObject(serialize_coder(h, im, o), FALSE, FALSE, FALSE, TRUE,
              [i \in 1..Len(cs) |-> as_cloud_object(h, im, cs[i])])

\* _PickleCoderBase.as_cloud_object and FastPrimitivesCoder.as_cloud_object
PairLike_as_cloud_object(h, im, o, is_pair_like) ==
  LET value == Coder_as_cloud_object(h, im, o) IN
  IF is_pair_like
    THEN [value EXCEPT !.is_pair_like = TRUE, !.component_encodings = <<value, value>>]
    ELSE value

\* TupleCoder.as_cloud_object
TupleCoder_as_cloud_object(h, im, o) ==
  IF is_kv_coder(h, o)
    THEN LET cs == get_component_coders(h, o) IN
         CloudObject(<<NameFrag("kind:pair")>>, TRUE, FALSE, FALSE, TRUE,
                     [i \in 1..Len(cs) |-> as_cloud_object(h, im, cs[i])])
    ELSE Coder_as_cloud_object(h, im, o)

\* IterableCoder.as_cloud_object
IterableCoder_as_cloud_object(h, im, o) ==
  CloudObject(<<NameFrag("kind:stream")>>, FALSE, TRUE, FALSE, TRUE,
              <<as_cloud_object(h, im, h[o].refs[1])>>)

\* WindowedValueCoder.as_cloud_object
WindowedValueCoder_as_cloud_object(h, im, o) ==
  LET cs == get_component_coders(h, o) IN
  CloudObject(<<NameFrag("kind:windowed_value")>>, FALSE, FALSE, TRUE, TRUE,
              [i \in 1..Len(cs) |-> as_cloud_object(h, im, cs[i])])

\* LengthPrefixCoder.as_cloud_object
LengthPrefixCoder_as_cloud_object(h, im, o) ==
  CloudObject(<<NameFrag("kind:length_prefix")>>, FALSE, FALSE, FALSE, TRUE,
              <<as_cloud_object(h, im, h[o].refs[1])>>)

\* GlobalWindowCoder.as_cloud_object
GlobalWindowCoder_as_cloud_object == 
  CloudObject(<<NameFrag("kind:global_window")>>, FALSE, FALSE, FALSE, FALSE, <<>>)

\* IntervalWindowCoder.as_cloud_object
IntervalWindowCoder_as_cloud_object == 
  CloudObject(<<NameFrag("kind:interval_window")>>, FALSE, FALSE, FALSE, FALSE, <<>>)

\* o.as_cloud_object(), resolved on the class of o
as_cloud_object(h, im, o) ==
  CASE h[o].kind \in {"PickleCoder", "DillCoder", "FastPrimitivesCoder"} ->
         PairLike_as_cloud_object(h, im, o, TRUE)
    [] h[o].kind = "TupleCoder" -> TupleCoder_as_cloud_object(h, im, o)
    [] h[o].kind = "IterableCoder" -> IterableCoder_as_cloud_object(h, im, o)
    [] h[o].kind = "WindowedValueCoder" -> WindowedValueCoder_as_cloud_object(h, im, o)
    [] h[o].kind = "LengthPrefixCoder" -> LengthPrefixCoder_as_cloud_object(h, im, o)
    [] h[o].kind = "GlobalWindowCoder" -> GlobalWindowCoder_as_cloud_object
    [] h[o].kind = "IntervalWindowCoder" -> IntervalWindowCoder_as_cloud_object
    [] OTHER -> Coder_as_cloud_object(h, im, o)

(* ---------------------------- constructors ----------------------------- *)
\* the objects a constructor call appends to the heap; none has a handle yet
Allocate(news) ==
  /\ heap' = heap \o news
  /\ impl' = impl \o [i \in 1..Len(news) |-> NoHandle]
  /\ created' = created \o [i \in 1..Len(news) |-> 0]
  /\ first' = first \o [i \in 1..Len(news) |-> NoHandle]
  /\ ncalls' = ncalls + 1

\* StrUtf8Coder(), BytesCoder(), PickleCoder(), ... : no attribute is set
\* (GlobalWindowCoder.__init__ stores the global window marker)
NewStateless(k) ==
  Allocate(<<Obj(k, <<>>, IF k = "GlobalWindowCoder" THEN "GlobalWindow" ELSE "")>>)

\* SingletonCoder.__init__
NewSingletonCoder(v) == Allocate(<<Obj("SingletonCoder", <<>>, v)>>)

\* ProtoCoder.__init__
NewProtoCoder(t) == Allocate(<<Obj("ProtoCoder", <<>>, t)>>)

\* DeterministicFastPrimitivesCoder.__init__
NewDeterministicFastPrimitivesCoder(c, label) ==
  Allocate(<<Obj("DeterministicFastPrimitivesCoder", <<c>>, label)>>)

\* FastPrimitivesCoder.__init__ ; without an argument the fallback is the one
\* PickleCoder made when the module was imported
NewFastPrimitivesCoder(c) == Allocate(<<Obj("FastPrimitivesCoder", <<c>>, "")>>)

\* TupleCoder.__init__
NewTupleCoder(cs) == Allocate(<<Obj("TupleCoder", cs, "")>>)

\* TupleSequenceCoder.__init__
NewTupleSequenceCoder(c) == Allocate(<<Obj("TupleSequenceCoder", <<c>>, "")>>)

\* IterableCoder.__init__
NewIterableCoder(c) == Allocate(<<Obj("IterableCoder", <<c>>, "")>>)

\* LengthPrefixCoder.__init__
NewLengthPrefixCoder(c) == Allocate(<<Obj("LengthPrefixCoder", <<c>>, "")>>)

\* WindowedValueCoder.__init__ with a window coder: a TimestampCoder is made
NewWindowedValueCoder(c, w) ==
  Allocate(<<Obj("TimestampCoder", <<>>, ""),
             Obj("WindowedValueCoder", <<c, Len(heap) + 1, w>>, "")>>)

\* WindowedValueCoder.__init__ without a window coder: a PickleCoder is made too
NewWindowedValueCoderDefault(c) ==
  Allocate(<<Obj("PickleCoder", <<>>, ""),
             Obj("TimestampCoder", <<>>, ""),
             Obj("WindowedValueCoder", <<c, Len(heap) + 2, Len(heap) + 1>>, "")>>)

\* the component lists a TupleCoder can be built from
ComponentLists(h) == UNION {[1..n -> Objs(h)] : n \in Arities}

\* one constructor call of the program
Construct ==
  \/ \E k \in StatelessKinds : NewStateless(k)
  \/ \E v \in Values : NewSingletonCoder(v)
  \/ \E t \in MessageTypes : NewProtoCoder(t)
  \/ \E c \in Objs(heap), l \in StepLabels : NewDeterministicFastPrimitivesCoder(c, l)
  \/ \E c \in Objs(heap) : NewFastPrimitivesCoder(c)
  \/ \E cs \in ComponentLists(heap) : NewTupleCoder(cs)
  \/ \E c \in Objs(heap) : NewTupleSequenceCoder(c)
  \/ \E c \in Objs(heap) : NewIterableCoder(c)
  \/ \E c \in Objs(heap) : NewLengthPrefixCoder(c)
  \/ \E c \in Objs(heap), w \in Objs(heap) : NewWindowedValueCoder(c, w)
  \/ \E c \in Objs(heap) : NewWindowedValueCoderDefault(c)

(* ------------------------------ get_impl ------------------------------- *)
\* the threads that may call into one coder at the same time
NThreads == 2
Threads == 1..NThreads

\* the coders whose get_impl() the _create_impl of o calls, in call order
\* (LengthPrefixCoder._create_impl hands over the value coder itself)
create_impl_args(h, o) ==
  CASE h[o].kind \in {"DeterministicFastPrimitivesCoder", "FastPrimitivesCoder",
                      "TupleCoder", "TupleSequenceCoder", "IterableCoder",
                      "WindowedValueCoder"} -> h[o].refs
    [] OTHER -> <<>>

\* classes that take encode, decode and estimate_size from FastCoder
DirectKinds == {"StrUtf8Coder", "ToStringCoder", "Base64PickleCoder"}
IsFastCoder(h, o) == h[o].kind \notin DirectKinds

\* one activation of get_impl: where it stands, the component whose handle
\* _create_impl asks for next, the handles got so far, the handle just made
Frame(o) == [self |-> o, pc |-> "check", i |-> 1, args |-> <<>>, new |-> NoHandle]

Top(t) == frames[t][Len(frames[t])]
SetTop(t, f) == [frames EXCEPT ![t] = [@ EXCEPT ![Len(@)] = f]]

Idle(t) == frames[t] = <<>>

CallRecord(op, o, done, r) == [op |-> op, self |-> o, done |-> done, ret |-> r]

\* a thread calls coder.get_impl()
CallGetImpl(t, o) ==
  /\ Idle(t)
  /\ frames' = [frames EXCEPT ![t] = <<Frame(o)>>]
  /\ rets' = [rets EXCEPT ![t] = CallRecord("get_impl", o, FALSE, NoHandle)]
  /\ UNCHANGED <<heap, ncalls, impl, created, first, last, codec>>

RECURSIVE estimate_size_target(_, _)
\* LengthPrefixCoder.estimate_size asks its value coder
estimate_size_target(h, o) ==
  IF h[o].kind = "LengthPrefixCoder" THEN estimate_size_target(h, h[o].refs[1]) ELSE o

\* the coder whose get_impl() the call o.op(value) begins with; 0 if none
\* (FastCoder.encode, FastCoder.decode, FastCoder.estimate_size,
\*  LengthPrefixCoder.estimate_size, and the direct coders' own methods)
handle_user(h, op, o) ==
  LET c == IF op = "estimate_size" THEN estimate_size_target(h, o) ELSE o
  IN IF IsFastCoder(h, c) THEN c ELSE 0

\* a thread calls coder.encode(v), coder.decode(b) or coder.estimate_size(v)
CallCoder(t, op, o) ==
  /\ Idle(t)
  /\ LET c == handle_user(heap, op, o) IN
     IF c = 0
       THEN /\ rets' = [rets EXCEPT ![t] = CallRecord(op, o, TRUE, NoHandle)]
            /\ UNCHANGED frames
       ELSE /\ rets' = [rets EXCEPT ![t] = CallRecord(op, o, FALSE, NoHandle)]
            /\ frames' = [frames EXCEPT ![t] = <<Frame(c)>>]
  /\ UNCHANGED <<heap, ncalls, impl, created, first, last, codec>>

\* line 119: if not hasattr(self, '_impl')
Check(t) ==
  /\ ~Idle(t)
  /\ Top(t).pc = "check"
  /\ frames' = SetTop(t, [Top(t) EXCEPT
                            !.pc = IF hasattr_impl(impl, Top(t).self) THEN "return" ELSE "create"])
  /\ UNCHANGED <<heap, ncalls, impl, created, first, rets, last, codec>>

\* line 120, inside self._create_impl(): the next component's get_impl() is called
CreateArg(t) ==
  /\ ~Idle(t)
  /\ Top(t).pc = "create"
  /\ Top(t).i <= Len(create_impl_args(heap, Top(t).self))
  /\ frames' = [frames EXCEPT ![t] = Append(@, Frame(create_impl_args(heap, Top(t).self)[Top(t).i]))]
  /\ UNCHANGED <<heap, ncalls, impl, created, first, rets, last, codec>>

\* line 120, self._create_impl() returns a new CoderImpl
CreateImpl(t) ==
  /\ ~Idle(t)
  /\ Top(t).pc = "create"
  /\ Top(t).i > Len(create_impl_args(heap, Top(t).self))
  /\ created' = [created EXCEPT ![Top(t).self] = @ + 1]
  /\ frames' = SetTop(t, [Top(t) EXCEPT
                            !.pc = "store",
                            !.new = Handle(Top(t).self, created[Top(t).self] + 1, Top(t).args)])
  /\ UNCHANGED <<heap, ncalls, impl, first, rets, last, codec>>

\* line 120, self._impl = ... (the assert of line 121 reads a CoderImpl back)
Store(t) ==
  /\ ~Idle(t)
  /\ Top(t).pc = "store"
  /\ impl' = [impl EXCEPT ![Top(t).self] = Top(t).new]
  /\ frames' = SetTop(t, [Top(t) EXCEPT !.pc = "return"])
  /\ UNCHANGED <<heap, ncalls, created, first, rets, last, codec>>

\* line 122: return self._impl, to the _create_impl that asked or to the caller
ReturnImpl(t) ==
  /\ ~Idle(t)
  /\ Top(t).pc = "return"
  /\ LET o == Top(t).self
         r == impl[o]
         n == Len(frames[t])
     IN /\ first' = [first EXCEPT ![o] = IF @ = NoHandle THEN r ELSE @]
        /\ IF n = 1
             THEN /\ frames' = [frames EXCEPT ![t] = <<>>]
                  /\ rets' = [rets EXCEPT ![t] = [@ EXCEPT !.done = TRUE, !.ret = r]]
             ELSE /\ frames' = [frames EXCEPT ![t] =
                       [SubSeq(@, 1, n - 1) EXCEPT
                          ![n - 1] = [@ EXCEPT !.args = Append(@, HandleId(r)), !.i = @ + 1]]]
                  /\ UNCHANGED rets
  /\ UNCHANGED <<heap, ncalls, impl, created, last, codec>>

\* one step of a thread inside get_impl
GetImplStep(t) ==
  \/ Check(t)
  \/ CreateArg(t)
  \/ CreateImpl(t)
  \/ Store(t)
  \/ ReturnImpl(t)

\* one step of a thread
Step(t) ==
  \/ \E o \in Objs(heap) : CallGetImpl(t, o)
  \/ \E o \in Objs(heap), op \in {"encode", "decode", "estimate_size"} : CallCoder(t, op, o)
  \/ GetImplStep(t)

NoRecord == CallRecord("none", 0, TRUE, NoHandle)

RECURSIVE get_impl(_, _, _)
RECURSIVE create_impl_components(_, _, _)

\* the get_impl() calls _create_impl makes, one component after the other;
\* st holds the _impl attributes, the _create_impl counts and the first handles
create_impl_components(h, st, args) ==
  IF args = <<>> THEN st
  ELSE create_impl_components(h, get_impl(h, st, Head(args)), Tail(args))

\* Coder.get_impl run to its end by one thread (lines 118-122)
get_impl(h, st, o) ==
  IF hasattr_impl(st.impl, o)
    THEN [st EXCEPT !.first[o] = IF @ = NoHandle THEN st.impl[o] ELSE @]
    ELSE LET args == create_impl_args(h, o)
             st1 == create_impl_components(h, st, args)
             new == Handle(o, st1.created[o] + 1,
                           [i \in 1..Len(args) |-> HandleId(st1.impl[args[i]])])
         IN [impl |-> [st1.impl EXCEPT ![o] = new],
             created |-> [st1.created EXCEPT ![o] = @ + 1],
             first |-> [st1.first EXCEPT ![o] = IF @ = NoHandle THEN new ELSE @]]

\* the operations that may create a handle
HandleOps == {"get_impl", "encode", "decode", "estimate_size"}

\* one thread calls o.get_impl(), o.encode(v), o.decode(b) or
\* o.estimate_size(v) and the call returns
UseCoder(op, o) ==
  /\ \A t \in Threads : Idle(t)
  /\ LET c == IF op = "get_impl" THEN o ELSE handle_user(heap, op, o) IN
     /\ c # 0
     /\ LET st == get_impl(heap, [impl |-> impl, created |-> created, first |-> first], c) IN
        /\ impl' = st.impl
        /\ created' = st.created
        /\ first' = st.first
  /\ UNCHANGED <<heap, ncalls, frames, rets, last, codec>>

\* the last description made or read: the coder it was made from, what
\* happened to it on the way, its text, and what reading it gave
Description(op, o, m, d, ok, err, obj, base) ==
  [op |-> op, src |-> o, mangle |-> m, desc |-> d, ok |-> ok, err |-> err,
   obj |-> obj, base |-> base]
NoCall == Description("none", 0, "", <<>>, FALSE, "", 0, 0)

\* what may happen to a description between the two processes
Mangles == {"intact", "other_tag", "unknown_tag", "no_dollar", "no_blob",
            "empty_blob", "unknown_class"}

\* a class name other than n
OtherName(n) == IF n = "BytesCoder" THEN "VarIntCoder" ELSE "BytesCoder"

Mangle(d, m) ==
  CASE m = "intact" -> d
    [] m = "other_tag" -> <<NameFrag(OtherName(d[1].name)), d[2], d[3]>>
    [] m = "unknown_tag" -> <<NameFrag("NoSuchCoder"), d[2], d[3]>>
    [] m = "no_dollar" -> <<d[1], d[3]>>
    [] m = "no_blob" -> <<d[1], d[2]>>
    [] m = "empty_blob" -> <<d[1], d[2], BlobFrag(<<>>)>>
    [] m = "unknown_class" ->
         <<d[1], d[2],
           BlobFrag([d[3].blob EXCEPT ![Len(d[3].blob)] = [@ EXCEPT !.cls = "NoSuchCoder"]])>>

\* serialize_coder(o); the description reaches the reader as m leaves it
SerializeCoder(o, m) ==
  /\ Idle(1)
  /\ last = NoCall
  /\ last' = Description("serialize_coder", o, m, Mangle(serialize_coder(heap, impl, o), m),
                         FALSE, "", 0, Len(heap))
  /\ UNCHANGED <<heap, ncalls, impl, created, first, frames, rets, codec>>

\* deserialize_coder(description)
DeserializeCoder ==
  /\ last.op = "serialize_coder"
  /\ LET r == deserialize_coder(heap, impl, created, last.desc) IN
     /\ heap' = r.heap
     /\ impl' = r.impl
     /\ created' = r.created
     /\ first' = first \o [i \in 1..(Len(r.heap) - Len(heap)) |-> NoHandle]
     /\ last' = [last EXCEPT !.op = "deserialize_coder", !.ok = r.ok, !.err = r.err,
                             !.obj = r.obj]
  /\ UNCHANGED <<ncalls, frames, rets, codec>>

\* after the module is imported: the default fallback PickleCoder exists
InitHeap ==
  /\ heap = <<Obj("PickleCoder", <<>>, "")>>
  /\ impl = <<NoHandle>>
  /\ created = <<0>>
  /\ first = <<NoHandle>>
  /\ ncalls = 0

(* --------------------------- encode / decode --------------------------- *)
\* longest string handed to a coder
MaxLen == 2

\* Values of the Python 2 types str (a byte string), unicode and int.
PyStr(bs) == [type |-> "str", chars |-> bs, n |-> 0]
PyUnicode(cs) == [type |-> "unicode", chars |-> cs, n |-> 0]
PyInt(n) == [type |-> "int", chars |-> <<>>, n |-> n]
NoValue == [type |-> "none", chars |-> <<>>, n |-> 0]

\* code points with a one, two and three byte UTF-8 form; an ASCII and a
\* non-ASCII byte; some integers
CodePoints == {65, 233, 8364}
StrBytes == {65, 233}
Ints == {0, 7, 300}

SeqsUpTo(S, n) == UNION {[1..k -> S] : k \in 0..n}

CodecValues ==
  {PyStr(bs) : bs \in SeqsUpTo(StrBytes, MaxLen)} \cup
  {PyUnicode(cs) : cs \in SeqsUpTo(CodePoints, MaxLen)} \cup
  {PyInt(n) : n \in Ints}

\* the result of encode (a byte string) or decode (a value), or an error
Encoded(bs) == [ok |-> TRUE, bytes |-> bs, value |-> NoValue, err |-> ""]
Decoded(v) == [ok |-> TRUE, bytes |-> <<>>, value |-> v, err |-> ""]
Failed(e) == [ok |-> FALSE, bytes |-> <<>>, value |-> NoValue, err |-> e]

IsAscii(bs) == \A i \in 1..Len(bs) : bs[i] < 128

\* v == w in Python 2: a str and a unicode are equal when the str is ASCII
\* and has the same characters
PyEq(v, w) ==
  \/ v.type = w.type /\ v.chars = w.chars /\ v.n = w.n
  \/ /\ {v.type, w.type} = {"str", "unicode"}
     /\ v.chars = w.chars
     /\ IsAscii(v.chars)

\* the UTF-8 bytes of one code point
Utf8Bytes(cp) ==
  IF cp < 128 THEN <<cp>>
  ELSE IF cp < 2048 THEN <<192 + (cp \div 64), 128 + (cp % 64)>>
  ELSE <<224 + (cp \div 4096), 128 + ((cp \div 64) % 64), 128 + (cp % 64)>>

RECURSIVE utf8_encode(_)
\* unicode.encode('utf-8')
utf8_encode(cs) ==
  IF cs = <<>> THEN <<>> ELSE Utf8Bytes(Head(cs)) \o utf8_encode(Tail(cs))

IsContinuation(b) == b >= 128 /\ b < 192

RECURSIVE utf8_decode(_)
\* str.decode('utf-8'): the code points, or an error on bytes that are no UTF-8
utf8_decode(bs) ==
  IF bs = <<>> THEN Decoded(PyUnicode(<<>>))
  ELSE LET b == Head(bs)
           more(k, cp) ==
             LET rest == utf8_decode(SubSeq(bs, k + 1, Len(bs))) IN
             IF rest.ok THEN Decoded(PyUnicode(<<cp>> \o rest.value.chars)) ELSE rest
       IN IF b < 128 THEN more(1, b)
          ELSE IF b >= 194 /\ b < 224 /\ Len(bs) >= 2 /\ IsContinuation(bs[2])
            THEN more(2, (b - 192) * 64 + (bs[2] - 128))
          ELSE IF /\ b >= 224 /\ b < 240 /\ Len(bs) >= 3
                  /\ IsContinuation(bs[2]) /\ IsContinuation(bs[3])
                  /\ (b - 224) * 4096 + (bs[2] - 128) * 64 + (bs[3] - 128) >= 2048
            THEN more(3, (b - 224) * 4096 + (bs[2] - 128) * 64 + (bs[3] - 128))
          ELSE Failed("UnicodeDecodeError")

\* value.encode('utf-8') in Python 2: a unicode is encoded; a str is first
\* decoded as ASCII and then encoded; other values have no encode method
value_encode_utf8(v) ==
  CASE v.type = "unicode" -> Encoded(utf8_encode(v.chars))
    [] v.type = "str" ->
         IF IsAscii(v.chars) THEN Encoded(utf8_encode(v.chars))
         ELSE Failed("UnicodeDecodeError")
    [] OTHER -> Failed("AttributeError")

\* StrUtf8Coder.encode
StrUtf8Coder_encode(v) == value_encode_utf8(v)

\* a slip that would read every byte as one character
StrUtf8Coder_decode_Latin1(bs) == Decoded(PyUnicode(bs))

\* StrUtf8Coder.decode
StrUtf8Coder_decode(bs) == utf8_decode(bs)

RECURSIVE Digits(_)
\* the decimal digits of a natural number, as ASCII bytes
Digits(n) == IF n < 10 THEN <<48 + n>> ELSE Digits(n \div 10) \o <<48 + (n % 10)>>

\* str(value)
str(v) ==
  CASE v.type = "int" -> Digits(v.n)
    [] v.type = "str" -> v.chars
    [] OTHER -> <<>>

\* ToStringCoder.encode
ToStringCoder_encode(v) ==
  IF v.type = "unicode" THEN Encoded(utf8_encode(v.chars))
  ELSE IF v.type = "str" THEN Encoded(v.chars)
  ELSE Encoded(str(v))

\* ToStringCoder.decode
ToStringCoder_decode(bs) == Failed("NotImplementedError")

\* pickle.dumps(value): a type mark (S, V or I), the content, and a full stop
pickle_dumps(v) ==
  CASE v.type = "str" -> <<83>> \o v.chars \o <<46>>
    [] v.type = "unicode" -> <<86>> \o utf8_encode(v.chars) \o <<46>>
    [] v.type = "int" -> <<73>> \o Digits(v.n) \o <<46>>

RECURSIVE Number(_)
\* the number a run of ASCII digits stands for
Number(ds) == IF ds = <<>> THEN 0 ELSE Number(SubSeq(ds, 1, Len(ds) - 1)) * 10 + (ds[Len(ds)] - 48)

\* pickle.loads(bytes)
pickle_loads(bs) ==
  IF Len(bs) < 2 \/ bs[Len(bs)] # 46 THEN Failed("UnpicklingError")
  ELSE LET body == SubSeq(bs, 2, Len(bs) - 1) IN
       CASE bs[1] = 83 -> Decoded(PyStr(body))
         [] bs[1] = 86 -> utf8_decode(body)
         [] bs[1] = 73 /\ body # <<>> /\ (\A i \in 1..Len(body) : body[i] \in 48..57) ->
              Decoded(PyInt(Number(body)))
         [] OTHER -> Failed("UnpicklingError")

\* the base64 alphabet: the character of a 6-bit value and back
B64Char(i) ==
  IF i < 26 THEN 65 + i
  ELSE IF i < 52 THEN 97 + (i - 26)
  ELSE IF i < 62 THEN 48 + (i - 52)
  ELSE IF i = 62 THEN 43 ELSE 47

IsB64Char(c) == c \in (65..90) \cup (97..122) \cup (48..57) \cup {43, 47}

B64Index(c) ==
  IF c \in 65..90 THEN c - 65
  ELSE IF c \in 97..122 THEN c - 97 + 26
  ELSE IF c \in 48..57 THEN c - 48 + 52
  ELSE IF c = 43 THEN 62 ELSE 63

RECURSIVE b64encode(_)
\* base64.b64encode: three bytes become four characters, '=' pads the end
b64encode(bs) ==
  IF bs = <<>> THEN <<>>
  ELSE IF Len(bs) = 1
    THEN <<B64Char(bs[1] \div 4), B64Char((bs[1] % 4) * 16), 61, 61>>
  ELSE IF Len(bs) = 2
    THEN <<B64Char(bs[1] \div 4), B64Char((bs[1] % 4) * 16 + (bs[2] \div 16)),
           B64Char((bs[2] % 16) * 4), 61>>
  ELSE <<B64Char(bs[1] \div 4), B64Char((bs[1] % 4) * 16 + (bs[2] \div 16)),
         B64Char((bs[2] % 16) * 4 + (bs[3] \div 64)), B64Char(bs[3] % 64)>>
       \o b64encode(SubSeq(bs, 4, Len(bs)))

RECURSIVE b64decode(_)
\* base64.b64decode: four characters become up to three bytes
b64decode(cs) ==
  IF cs = <<>> THEN Encoded(<<>>)
  ELSE IF Len(cs) < 4 \/ ~IsB64Char(cs[1]) \/ ~IsB64Char(cs[2]) THEN Failed("TypeError")
  ELSE LET a == B64Index(cs[1])
           b == B64Index(cs[2])
           b1 == a * 4 + (b \div 16)
       IN IF cs[3] = 61 /\ cs[4] = 61 /\ Len(cs) = 4 THEN Encoded(<<b1>>)
          ELSE IF ~IsB64Char(cs[3]) THEN Failed("TypeError")
          ELSE LET c == B64Index(cs[3])
                   b2 == (b % 16) * 16 + (c \div 4)
               IN IF cs[4] = 61 /\ Len(cs) = 4 THEN Encoded(<<b1, b2>>)
                  ELSE IF ~IsB64Char(cs[4]) THEN Failed("TypeError")
                  ELSE LET rest == b64decode(SubSeq(cs, 5, Len(cs))) IN
                       IF rest.ok
                         THEN Encoded(<<b1, b2, (c % 4) * 64 + B64Index(cs[4])>> \o rest.bytes)
                         ELSE rest

\* Base64PickleCoder.encode
Base64PickleCoder_encode(v) == Encoded(b64encode(pickle_dumps(v)))

\* Base64PickleCoder.decode
Base64PickleCoder_decode(bs) ==
  LET raw == b64decode(bs) IN
  IF raw.ok THEN pickle_loads(raw.bytes) ELSE raw

\* BytesCoderImpl: a byte string is its own encoding
BytesCoderImpl_encode(v) ==
  IF v.type = "str" THEN Encoded(v.chars) ELSE Failed("TypeError")
BytesCoderImpl_decode(bs) == Decoded(PyStr(bs))

RECURSIVE VarInt(_)
\* a natural number in groups of seven bits, the low group first, the high
\* bit set on every byte but the last
VarInt(n) == IF n < 128 THEN <<n>> ELSE <<128 + (n % 128)>> \o VarInt(n \div 128)

RECURSIVE UnVarInt(_)
UnVarInt(bs) == IF Len(bs) = 1 THEN bs[1] ELSE (bs[1] - 128) + 128 * UnVarInt(Tail(bs))

\* VarIntCoderImpl
VarIntCoderImpl_encode(v) ==
  IF v.type = "int" THEN Encoded(VarInt(v.n)) ELSE Failed("TypeError")
VarIntCoderImpl_decode(bs) ==
  IF /\ bs # <<>>
     /\ bs[Len(bs)] < 128
     /\ \A i \in 1..(Len(bs) - 1) : bs[i] >= 128
    THEN Decoded(PyInt(UnVarInt(bs)))
    ELSE Failed("ValueError")

\* the coders of the codec runs: the three direct coders of the module and
\* two delegating (FastCoder) ones
CodecKinds == {"StrUtf8Coder", "ToStringCoder", "Base64PickleCoder", "BytesCoder",
               "VarIntCoder"}

\* FastCoder.encode: self.get_impl().encode(value)
FastCoder_encode(k, v) ==
  IF k = "BytesCoder" THEN BytesCoderImpl_encode(v) ELSE VarIntCoderImpl_encode(v)

\* FastCoder.decode: self.get_impl().decode(encoded)
FastCoder_decode(k, bs) ==
  IF k = "BytesCoder" THEN BytesCoderImpl_decode(bs) ELSE VarIntCoderImpl_decode(bs)

\* coder.encode(value), resolved on the class of the coder
encode(k, v) ==
  CASE k = "StrUtf8Coder" -> StrUtf8Coder_encode(v)
    [] k = "ToStringCoder" -> ToStringCoder_encode(v)
    [] k = "Base64PickleCoder" -> Base64PickleCoder_encode(v)
    [] OTHER -> FastCoder_encode(k, v)

\* coder.decode(encoded), resolved on the class of the coder
decode(k, bs) ==
  CASE k = "StrUtf8Coder" -> StrUtf8Coder_decode(bs)
    [] k = "ToStringCoder" -> ToStringCoder_decode(bs)
    [] k = "Base64PickleCoder" -> Base64PickleCoder_decode(bs)
    [] OTHER -> FastCoder_decode(k, bs)

\* the last codec call: the coder class, the value, encode's and decode's results
CodecCall(op, k, v, e, d) == [op |-> op, kind |-> k, value |-> v, enc |-> e, dec |-> d]
NoCodec == CodecCall("none", "", NoValue, Failed(""), Failed(""))

\* coder.encode(value)
Encode(k, v) ==
  /\ codec.op \in {"none", "decode"}
  /\ codec' = CodecCall("encode", k, v, encode(k, v), Failed(""))
  /\ UNCHANGED <<heap, ncalls, impl, created, first, frames, rets, last>>

\* coder.decode(encoded) on the bytes encode returned
Decode ==
  /\ codec.op = "encode"
  /\ codec.enc.ok
  /\ codec' = [codec EXCEPT !.op = "decode", !.dec = decode(codec.kind, codec.enc.bytes)]
  /\ UNCHANGED <<heap, ncalls, impl, created, first, frames, rets, last>>

NextCodec ==
  \/ \E k \in CodecKinds, v \in CodecValues : Encode(k, v)
  \/ Decode

Init ==
  /\ InitHeap
  /\ last = NoCall
  /\ frames = [t \in Threads |-> <<>>]
  /\ rets = [t \in Threads |-> NoRecord]
  /\ codec = NoCodec

Build ==
  /\ ncalls < MaxCalls
  /\ Construct
  /\ UNCHANGED <<last, frames, rets, codec>>

Next == Build

Spec == Init /\ [][Next]_vars

(* ------------------- one thread using the handles ---------------------- *)
BuildImpl ==
  /\ ncalls < MaxImplCalls
  /\ Idle(1)
  /\ Construct
  /\ UNCHANGED <<frames, rets, last, codec>>

NextImpl == BuildImpl \/ Step(1)

SpecImpl == Init /\ [][NextImpl]_vars

(* ------------------------ values encoded and decoded -------------------- *)
SpecCodec == Init /\ [][NextCodec]_vars

(* --------------- descriptions made and read by one thread --------------- *)
NextInterchange ==
  \/ last = NoCall /\ BuildImpl
  \/ last = NoCall /\ \E o \in Objs(heap) : CallGetImpl(1, o)
  \/ last = NoCall /\ GetImplStep(1)
  \/ \E o \in Objs(heap), m \in Mangles : SerializeCoder(o, m)
  \/ DeserializeCoder

SpecInterchange == Init /\ [][NextInterchange]_vars

(* ------------------- threads racing for one handle --------------------- *)
BuildRace ==
  /\ ncalls < MaxRaceCalls
  /\ \A t \in Threads : Idle(t) /\ rets[t] = NoRecord
  /\ Construct
  /\ UNCHANGED <<frames, rets, last, codec>>

\* each thread makes one call: the first use of a handle
StepRace(t) ==
  /\ Idle(t) => rets[t] = NoRecord
  /\ Step(t)

NextRace == BuildRace \/ \E t \in Threads : StepRace(t)

SpecRace == Init /\ [][NextRace]_vars

(* ---------------- coders built and used by one thread ------------------ *)
\* constructor calls made by the program of SpecFrame
MaxFrameCalls == 2

BuildFrame ==
  /\ ncalls < MaxFrameCalls
  /\ Construct
  /\ UNCHANGED <<frames, rets, last, codec>>

NextFrame ==
  \/ BuildFrame
  \/ \E o \in Objs(heap), op \in HandleOps : UseCoder(op, o)

SpecFrame == Init /\ [][NextFrame]_vars

(* ======================================================================= *)
(* Properties                                                              *)
(* ======================================================================= *)
CompositeKinds ==
  {"TupleCoder", "TupleSequenceCoder", "IterableCoder", "LengthPrefixCoder",
   "WindowedValueCoder"}

RECURSIVE StructurallyEqual(_, _, _)
\* the same class and equal attributes other than the handle, the coders
\* among them compared the same way
StructurallyEqual(h, a, b) ==
  /\ h[a].kind = h[b].kind
  /\ h[a].val = h[b].val
  /\ Len(h[a].refs) = Len(h[b].refs)
  /\ \A i \in 1..Len(h[a].refs) : StructurallyEqual(h, h[a].refs[i], h[b].refs[i])

\* C1: a == b exactly when a and b have the same class and structurally equal
\* attributes other than the handle; coders of one class whose components
\* differ are never equal.
C1_EqualityIsStructural ==
  \A a \in Objs(heap), b \in Objs(heap) :
    eq(heap, impl, a, b) <=> StructurallyEqual(heap, a, b)

\* C2: hash is consistent with equality: a == b implies hash(a) == hash(b),
\* for every class.
C2_HashConsistentWithEq ==
  \A a \in Objs(heap), b \in Objs(heap) :
    eq(heap, impl, a, b) => hash(heap, a) = hash(heap, b)

\* C3: every coder that reports is_kv_coder() has an as_cloud_object() with
\* is_pair_like set and exactly two component_encodings.
C3_PairShape ==
  \A o \in Objs(heap) :
    is_kv_coder(heap, o) =>
      LET c == as_cloud_object(heap, impl, o) IN
      /\ c.is_pair_like
      /\ c.has_component_encodings
      /\ Len(c.component_encodings) = 2

\* C6: a TupleCoder is a KV coder exactly when it has 2 components; then
\* key_coder() and value_coder() return the first and the second component;
\* with any other number of components both raise an error.
C6_TupleKvDuality ==
  \A o \in Objs(heap) :
    heap[o].kind = "TupleCoder" =>
      /\ is_kv_coder(heap, o) <=> (Len(heap[o].refs) = 2)
      /\ Len(heap[o].refs) = 2 =>
           /\ key_coder(heap, o) = Return(heap[o].refs[1])
           /\ value_coder(heap, o) = Return(heap[o].refs[2])
      /\ Len(heap[o].refs) # 2 =>
           /\ ~key_coder(heap, o).ok /\ key_coder(heap, o).err # ""
           /\ ~value_coder(heap, o).ok /\ value_coder(heap, o).err # ""

\* a pair whose key and value coders differ, built from a three-component
\* tuple coder, which is no pair
C6_Witness ==
  \E o \in Objs(heap), p \in Objs(heap) :
    /\ heap[o].kind = "TupleCoder" /\ Len(heap[o].refs) = 2
    /\ heap[o].refs[1] # heap[o].refs[2]
    /\ key_coder(heap, o).ok /\ value_coder(heap, o).val = p
    /\ heap[p].kind = "TupleCoder" /\ Len(heap[p].refs) = 3
    /\ ~is_kv_coder(heap, p) /\ ~key_coder(heap, p).ok

\* the coders a composite coder is made of (for a WindowedValueCoder: the
\* wrapped value coder, the timestamp coder and the window coder)
Components(h, o) == {h[o].refs[i] : i \in 1..Len(h[o].refs)}

RECURSIVE Leaves(_, _)
\* the coders that are not composite, reached through composite coders
Leaves(h, o) ==
  IF h[o].kind \in CompositeKinds
    THEN UNION {Leaves(h, c) : c \in Components(h, o)}
    ELSE {o}

\* C7: a composite coder, nested to any depth, is deterministic exactly when
\* each of its component coders is.
C7_DeterminismPropagates ==
  \A o \in Objs(heap) :
    heap[o].kind \in CompositeKinds =>
      /\ is_deterministic(heap, o) <=>
           \A c \in Components(heap, o) : is_deterministic(heap, c)
      /\ is_deterministic(heap, o) <=>
           \A c \in Leaves(heap, o) : is_deterministic(heap, c)

\* a composite around a composite, with a deterministic and a
\* non-deterministic component, reports False
C7_Witness ==
  \E o \in Objs(heap) :
    /\ heap[o].kind \in CompositeKinds
    /\ \E c \in Components(heap, o) : heap[c].kind \in CompositeKinds
    /\ \E c \in Components(heap, o) : is_deterministic(heap, c)
    /\ \E c \in Components(heap, o) : ~is_deterministic(heap, c)
    /\ ~is_deterministic(heap, o)

\* the coder whose get_impl() a recorded call went through; 0 if none
GetImplTarget(r) ==
  CASE r.op = "none" -> 0
    [] r.op = "get_impl" -> r.self
    [] OTHER -> handle_user(heap, r.op, r.self)

\* C4: threads that use the handle of one coder for the first time at the
\* same time all get the same handle, the one that stays cached.
C4_ConcurrentFirstUseSafe ==
  \A t \in Threads, u \in Threads :
    (/\ rets[t].done /\ rets[u].done
     /\ GetImplTarget(rets[t]) # 0
     /\ GetImplTarget(rets[t]) = GetImplTarget(rets[u]))
    => /\ rets[t].ret = rets[u].ret
       /\ (\A w \in Threads : Idle(w)) => rets[t].ret = impl[GetImplTarget(rets[t])]

\* one thread: _create_impl ran at most once for each coder, and every
\* get_impl() returned the handle the first one returned, which stays cached
CreatedOnceAndReused ==
  /\ \A o \in Objs(heap) : created[o] <= 1
  /\ \A o \in Objs(heap) : first[o] # NoHandle => impl[o] = first[o]
  /\ (rets[1].done /\ GetImplTarget(rets[1]) # 0) =>
        rets[1].ret = first[GetImplTarget(rets[1])]

\* the handle of o was built from the cached handles of all its components
BuiltFromComponentHandles(o) ==
  /\ Len(impl[o].args) = Len(heap[o].refs)
  /\ \A i \in 1..Len(heap[o].refs) :
       /\ impl[heap[o].refs[i]] # NoHandle
       /\ impl[o].args[i] = HandleId(impl[heap[o].refs[i]])

\* C10 as stated: in one thread _create_impl runs at most once per coder,
\* every get_impl() returns the first handle, and the first get_impl() of a
\* composite coder also creates and caches the handle of each component.
C10_Original ==
  /\ CreatedOnceAndReused
  /\ \A o \in Objs(heap) :
       (heap[o].kind \in CompositeKinds /\ first[o] # NoHandle) =>
          \A c \in Components(heap, o) : impl[c] # NoHandle

\* C10 amended: the same, but the composite part holds for the coders whose
\* _create_impl asks its components for their handles (TupleCoder,
\* TupleSequenceCoder, IterableCoder, WindowedValueCoder, FastPrimitivesCoder,
\* DeterministicFastPrimitivesCoder); the handle of a LengthPrefixCoder is
\* built from the value coder itself and from no handle.
C10_HandleCachedOnce ==
  /\ CreatedOnceAndReused
  /\ \A o \in Objs(heap) :
       impl[o] # NoHandle =>
         IF heap[o].kind \in (CompositeKinds \cup {"FastPrimitivesCoder",
                                "DeterministicFastPrimitivesCoder"}) \ {"LengthPrefixCoder"}
           THEN BuiltFromComponentHandles(o)
           ELSE impl[o].args = <<>>

\* get_impl() of a composite made the handle of its component, and a later
\* get_impl() on the component returned that handle
C10_Witness ==
  \E o \in Objs(heap) :
    /\ heap[o].kind \in CompositeKinds \ {"LengthPrefixCoder"}
    /\ impl[o] # NoHandle
    /\ rets[1].op = "get_impl" /\ rets[1].done
    /\ rets[1].self \in Components(heap, o)
    /\ HandleId(rets[1].ret) = impl[o].args[1]
    /\ created[rets[1].self] = 1
    /\ first[o] = impl[o]

\* C8 as stated: a description that is corrupt, or whose kind tag is unknown
\* or names another kind than the pickled coder, is rejected: no coder is
\* returned.
C8_Original ==
  (last.op = "deserialize_coder" /\ last.mangle # "intact") => ~last.ok

\* the objects the last deserialize_coder made
Loaded_objects == (last.base + 1)..Len(heap)

\* C8 amended: a description without '$' fails with IndexError and one whose
\* text after the first '$' the pickler cannot load fails with the pickler's
\* error; neither returns a coder. The kind tag before the '$' is ignored: with
\* an unknown or a wrong tag the coder pickled in the blob is returned.
C8_DeserializeRejectsCorrupt ==
  last.op = "deserialize_coder" =>
    CASE last.mangle = "no_dollar" ->
           ~last.ok /\ last.err = "IndexError" /\ Loaded_objects = {}
      [] last.mangle \in {"no_blob", "empty_blob", "unknown_class"} ->
           ~last.ok /\ last.err = "UnpicklingError" /\ Loaded_objects = {}
      [] last.mangle \in {"intact", "other_tag", "unknown_tag"} ->
           /\ last.ok /\ last.obj = Len(heap) /\ last.obj > last.base
           /\ StructurallyEqual(heap, last.obj, last.src)

\* a description was rejected for its blob, though its tag was right
C8_Witness ==
  /\ last.op = "deserialize_coder"
  /\ last.mangle = "unknown_class"
  /\ last.desc[1].name = heap[last.src].kind
  /\ ~last.ok

\* C9: deserialize_coder(serialize_coder(c)) == c, whether or not handles of c
\* or of its components exist; the description is '<class name>$<blob>'; the
\* coder read back has no handle.
C9_InterchangeRoundTrip ==
  (last.op = "deserialize_coder" /\ last.mangle = "intact") =>
    /\ last.ok
    /\ eq(heap, impl, last.obj, last.src)
    /\ eq(heap, impl, last.src, last.obj)
    /\ StructurallyEqual(heap, last.obj, last.src)
    /\ Len(last.desc) = 3
    /\ last.desc[1] = NameFrag(heap[last.src].kind)
    /\ last.desc[2] = DollarFrag
    /\ last.desc[3].t = "blob"
    /\ \A n \in Loaded_objects : impl[n] = NoHandle

\* a coder with a cached handle, built over a component with a cached handle,
\* was written and read back
C9_Witness ==
  /\ last.op = "deserialize_coder" /\ last.mangle = "intact" /\ last.ok
  /\ impl[last.src] # NoHandle
  /\ heap[last.src].refs # <<>>
  /\ impl[heap[last.src].refs[1]] # NoHandle
  /\ last.obj # last.src

NoHandles == [o \in Objs(heap) |-> NoHandle]

\* what a == b, __getstate__ and as_cloud_object() give does not depend on the
\* handles cached so far
SameWithoutHandles ==
  \A a \in Objs(heap) :
    /\ getstate(heap, impl, a) = getstate(heap, NoHandles, a)
    /\ as_cloud_object(heap, impl, a) = as_cloud_object(heap, NoHandles, a)
    /\ \A b \in Objs(heap) : eq(heap, impl, a, b) <=> eq(heap, NoHandles, a, b)

\* a call that creates a handle leaves every attribute but _impl alone, and
\* with them hash(a), is_deterministic() and is_kv_coder() of every coder
OnlyImplChanges ==
  (\E o \in Objs(heap) : impl'[o] # impl[o]) =>
    /\ heap' = heap
    /\ ncalls' = ncalls
    /\ \A a \in Objs(heap) :
         /\ hash(heap', a) = hash(heap, a)
         /\ is_deterministic(heap', a) = is_deterministic(heap, a)
         /\ is_kv_coder(heap', a) = is_kv_coder(heap, a)

\* C11: the handle is not part of a coder's identity: creating it changes
\* nothing but '_impl', and a == b, hash(a), __getstate__, is_deterministic(),
\* is_kv_coder() and as_cloud_object() are the same before and after the
\* handle of a, of b or of a component is created (in every state they are
\* what they were when no handle existed).
C11_HandleNotIdentity == [](SameWithoutHandles) /\ [][OnlyImplChanges]_vars

\* two equal coders that compare their attribute dictionaries, one with a
\* handle and one without, and a composite whose component has a handle
C11_Witness ==
  /\ \E a \in Objs(heap), b \in Objs(heap) :
       /\ a # b
       /\ heap[a].kind \in {"StrUtf8Coder", "ToStringCoder", "Base64PickleCoder",
                             "DeterministicFastPrimitivesCoder"}
       /\ impl[a] # NoHandle /\ impl[b] = NoHandle
       /\ eq(heap, impl, a, b) /\ eq(heap, impl, b, a)
  /\ \E o \in Objs(heap) :
       /\ heap[o].refs # <<>>
       /\ impl[heap[o].refs[1]] # NoHandle

\* C12: equal coders are interchangeable for grouping: a == b implies the same
\* is_deterministic() and is_kv_coder(), and for two KV coders equal
\* key_coder() and equal value_coder().
C12_EqualCodersInterchangeable ==
  \A a \in Objs(heap), b \in Objs(heap) :
    eq(heap, impl, a, b) =>
      /\ is_deterministic(heap, a) = is_deterministic(heap, b)
      /\ is_kv_coder(heap, a) = is_kv_coder(heap, b)
      /\ (is_kv_coder(heap, a) /\ is_kv_coder(heap, b)) =>
           /\ key_coder(heap, a).ok /\ key_coder(heap, b).ok
           /\ eq(heap, impl, key_coder(heap, a).val, key_coder(heap, b).val)
           /\ value_coder(heap, a).ok /\ value_coder(heap, b).ok
           /\ eq(heap, impl, value_coder(heap, a).val, value_coder(heap, b).val)

\* the call failed with the ValueError of a coder that is no KV coder (the
\* message of TupleCoder differs from the one of Coder)
FailsAsNotKv(r) == ~r.ok /\ r.err \in {NotAKvCoder, NotTwoComponents}

\* C13: for every coder key_coder() returns a coder exactly when
\* is_kv_coder() is true, and so does value_coder(); when is_kv_coder() is
\* false both fail with the 'Not a KV coder' error.
C13_KvAccessorsAgree ==
  \A o \in Objs(heap) :
    /\ key_coder(heap, o).ok <=> is_kv_coder(heap, o)
    /\ value_coder(heap, o).ok <=> is_kv_coder(heap, o)
    /\ ~is_kv_coder(heap, o) =>
         /\ FailsAsNotKv(key_coder(heap, o))
         /\ FailsAsNotKv(value_coder(heap, o))

====
